---- MODULE Spec2Model ----
(***************************************************************************)
(* Model of query/debug.go of dgraph: the sortedness validator             *)
(* AssertSorted / AssertUidListSorted and the dumper DebugSubgraph, both   *)
(* recursive read-only walks over a *SubGraph tree.                        *)
(*                                                                         *)
(* A Go pointer is modelled as a sequence of length at most one: <<>> is   *)
(* the nil pointer and <<v>> points to the value v.  A *SubGraph therefore *)
(* is <<>> or <<[Attr, SrcUIDs, DestUIDs, Children]>>, a *protos.List is   *)
(* <<>> or <<[Uids |-> seq]>>, and Children is a sequence of *SubGraph.    *)
(*                                                                         *)
(* The effects of one call are gathered in a machine record m:             *)
(*   status   "running", "fatal" (x.AssertTruef ended the process) or      *)
(*            "panic" (a nil pointer was dereferenced)                     *)
(*   log      the fatal messages written, each [format, args]              *)
(*   out      the lines written to standard output, as text                *)
(*   checked  history: the AssertUidListSorted calls entered, in order     *)
(*   failedAt history: where the failed comparison was                     *)
(* Every operator of the walks takes the machine and gives the machine     *)
(* after it; once the process has stopped, nothing more is done.           *)
(* Go indexes from 0, TLA+ sequences from 1; loop variables keep Go's      *)
(* values and the sequence accesses add one.                               *)
(***************************************************************************)
EXTENDS Naturals, Sequences, FiniteSets, TLC

VARIABLES tree, call, indent0, m

vars == <<tree, call, indent0, m>>

-----------------------------------------------------------------------------
(* Bounds of the model *)

\* the tree holds at most MaxSlots entries of Children lists (nil or not),
\* hence at most MaxSlots + 1 nodes
MaxSlots == 2

\* at most MaxLists of the tree's SrcUIDs and DestUIDs point to a list; the
\* others are nil
MaxLists == 2

Nil == <<>>

\* Attr is the predicate of the query level: the label of a node at depth d
LabelAt(d) == IF d = 0 THEN "forum" ELSE IF d = 1 THEN "threads" ELSE "posts"

\* the uid sequences a list may hold: empty, single, increasing, one whose
\* first pair decreases and whose second pair is a duplicate, and one whose
\* only violation is a duplicate in its last pair
UidSeqs == {<<>>, <<1>>, <<1, 2>>, <<2, 1, 1>>, <<1, 2, 2>>}

Lists == {<<[Uids |-> u]>> : u \in UidSeqs}

BaseIndents == {"", "> "}

-----------------------------------------------------------------------------
(* The trees of the model *)

\* NodesAt(b, d): the nodes at depth d, all their lists nil, whose subtree has
\* at most b entries of Children lists; ChildSeqs(b, d): the Children lists of
\* nodes at depth d - 1 within the same budget, their own entries included
RECURSIVE NodesAt(_, _)
RECURSIVE ChildSeqs(_, _)

NodesAt(b, d) ==
    {[Attr |-> LabelAt(d), SrcUIDs |-> Nil, DestUIDs |-> Nil, Children |-> ch] :
        ch \in ChildSeqs(b, d + 1)}

ChildSeqs(b, d) ==
    {<<>>} \cup
    UNION {
        LET ptrs == {Nil} \cup {<<n>> : n \in NodesAt(b1, d)}
        IN {<<p>> \o rest : p \in ptrs, rest \in ChildSeqs(b - 1 - b1, d)}
        : b1 \in 0 .. (b - 1) }

Shapes == {Nil} \cup {<<n>> : n \in NodesAt(MaxSlots, 0)}

\* the paths of the nodes of sg in the order of a depth-first pre-order walk;
\* a path is the sequence of Children indexes (from 0) leading to the node
RECURSIVE PreorderPaths(_, _)
RECURSIVE PreorderPathsFrom(_, _, _)

PreorderPathsFrom(sg, path, k) ==
    IF k >= Len(sg[1].Children) THEN <<>>
    ELSE PreorderPaths(sg[1].Children[k + 1], Append(path, k))
         \o PreorderPathsFrom(sg, path, k + 1)

PreorderPaths(sg, path) ==
    IF sg = Nil THEN <<>> ELSE <<path>> \o PreorderPathsFrom(sg, path, 0)

\* the list fields of a shape: its nodes' SrcUIDs and DestUIDs
ListFields(sh) ==
    LET pp == PreorderPaths(sh, <<>>)
    IN {[path |-> pp[j], field |-> f] : j \in 1 .. Len(pp), f \in {"SrcUIDs", "DestUIDs"}}

\* the shape sg, rooted at path, with the lists of the assignment asg (a
\* function from some of its list fields to lists) in place
RECURSIVE WithLists(_, _, _)
WithLists(sg, path, asg) ==
    IF sg = Nil THEN Nil
    ELSE LET at(f) == IF [path |-> path, field |-> f] \in DOMAIN asg
                      THEN asg[[path |-> path, field |-> f]] ELSE Nil
         IN <<[Attr     |-> sg[1].Attr,
               SrcUIDs  |-> at("SrcUIDs"),
               DestUIDs |-> at("DestUIDs"),
               Children |-> [k \in 1 .. Len(sg[1].Children) |->
                               WithLists(sg[1].Children[k], Append(path, k - 1), asg)]]>>

-----------------------------------------------------------------------------
(* The machine *)

NewMachine ==
    [status |-> "running", log |-> <<>>, out |-> <<>>, checked |-> <<>>,
     failedAt |-> <<>>]

\* fmt.Printf of one line (its text without the line break) to standard output
Printf(line, mm) == [mm EXCEPT !.out = Append(@, line)]

\* the verb %q of a label without characters to escape
Quote(str) == "\"" \o str \o "\""

\* the verb %v of a []uint64: [1 5 9]
RECURSIVE JoinUids(_, _)
JoinUids(uids, k) ==
    IF k > Len(uids) THEN ""
    ELSE (IF k = 1 THEN "" ELSE " ") \o ToString(uids[k]) \o JoinUids(uids, k + 1)

FmtUids(uids) == "[" \o JoinUids(uids, 1) \o "]"

\* the verb %v of a *protos.List: fmt writes <nil> for a nil pointer and the
\* list's rendering otherwise
FmtList(pl) == IF pl = Nil THEN "<nil>" ELSE FmtUids(pl[1].Uids)

\* x.AssertTruef(b, format, args...): when b is false the message is logged
\* and the process stops
AssertTruef(b, format, args, mm) ==
    IF b THEN mm
    ELSE [mm EXCEPT !.status = "fatal",
                    !.log = Append(@, [format |-> format, args |-> args])]

\* (*protos.List).GetUids(): nil for a nil receiver
GetUids(pl) == IF pl = Nil THEN <<>> ELSE pl[1].Uids

-----------------------------------------------------------------------------
(* AssertUidListSorted *)

\* faulty variant: the operands of the comparison exchanged
InOrderSwapped(a, b) == b < a

\* the asserted condition pl.Uids[i] < pl.Uids[i+1]
InOrder(a, b) == a < b

RECURSIVE AssertUidListSortedLoop(_, _, _, _, _)

\* faulty variant: the loop runs while i < len, so that its last round reads
\* pl.Uids[i+1] past the end (an index out of range panics; on a nil list the
\* read of pl.Uids dereferences nil)
AssertUidListSortedLoopOffByOne(pl, msg, i, path, mm) ==
    IF mm.status # "running" THEN mm
    ELSE IF ~(i < Len(GetUids(pl))) THEN mm
    ELSE IF i + 2 > Len(pl[1].Uids) THEN [mm EXCEPT !.status = "panic"]
    ELSE LET ok == InOrder(pl[1].Uids[i + 1], pl[1].Uids[i + 2])
             m1 == AssertTruef(ok, "%s list not sorted: %v", <<msg, GetUids(pl)>>, mm)
             m2 == IF ok THEN m1
                   ELSE [m1 EXCEPT !.failedAt = <<[path |-> path, msg |-> msg, i |-> i]>>]
         IN AssertUidListSortedLoop(pl, msg, i + 1, path, m2)

\* the rounds of the loop from i on; a round runs only while the process does
AssertUidListSortedLoop(pl, msg, i, path, mm) ==
    IF mm.status # "running" THEN mm
    ELSE IF ~(i + 1 < Len(GetUids(pl))) THEN mm
    ELSE LET ok == InOrder(pl[1].Uids[i + 1], pl[1].Uids[i + 2])
             m1 == AssertTruef(ok, "%s list not sorted: %v", <<msg, GetUids(pl)>>, mm)
             m2 == IF ok THEN m1
                   ELSE [m1 EXCEPT !.failedAt = <<[path |-> path, msg |-> msg, i |-> i]>>]
         IN AssertUidListSortedLoop(pl, msg, i + 1, path, m2)

\* path is the place of the list's node in the tree, kept for the history only
AssertUidListSorted(pl, msg, path, mm) ==
    IF mm.status # "running" THEN mm
    ELSE AssertUidListSortedLoop(pl, msg, 0, path,
             [mm EXCEPT !.checked = Append(@, [path |-> path, msg |-> msg])])

-----------------------------------------------------------------------------
(* AssertSorted *)

RECURSIVE AssertSorted(_, _, _)
RECURSIVE AssertSortedChildren(_, _, _, _)

\* faulty variant: the walk returns after the first child
AssertSortedChildrenFirstOnly(sg, k, path, mm) ==
    IF mm.status # "running" THEN mm
    ELSE IF k >= Len(sg[1].Children) \/ k >= 1 THEN mm
    ELSE AssertSortedChildren(sg, k + 1, path,
             AssertSorted(sg[1].Children[k + 1], Append(path, k), mm))

\* for _, ch := range sg.Children { AssertSorted(ch) }, from child k on
AssertSortedChildren(sg, k, path, mm) ==
    IF mm.status # "running" THEN mm
    ELSE IF k >= Len(sg[1].Children) THEN mm
    ELSE AssertSortedChildren(sg, k + 1, path,
             AssertSorted(sg[1].Children[k + 1], Append(path, k), mm))

\* faulty variant: the two tags exchanged
AssertSortedSwappedTags(sg, path, mm) ==
    IF mm.status # "running" THEN mm
    ELSE IF sg = Nil THEN mm
    ELSE LET m1 == AssertUidListSorted(sg[1].SrcUIDs, "dest uid", path, mm)
             m2 == AssertUidListSorted(sg[1].DestUIDs, "src uid", path, m1)
         IN AssertSortedChildren(sg, 0, path, m2)

\* faulty variant: no nil check, so that sg.SrcUIDs dereferences a nil sg
AssertSortedNoNilCheck(sg, path, mm) ==
    IF mm.status # "running" THEN mm
    ELSE IF sg = Nil THEN [mm EXCEPT !.status = "panic"]
    ELSE LET m1 == AssertUidListSorted(sg[1].SrcUIDs, "src uid", path, mm)
             m2 == AssertUidListSorted(sg[1].DestUIDs, "dest uid", path, m1)
         IN AssertSortedChildren(sg, 0, path, m2)

\* faulty variant: DestUIDs checked before SrcUIDs
AssertSortedDestFirst(sg, path, mm) ==
    IF mm.status # "running" THEN mm
    ELSE IF sg = Nil THEN mm
    ELSE LET m1 == AssertUidListSorted(sg[1].DestUIDs, "dest uid", path, mm)
             m2 == AssertUidListSorted(sg[1].SrcUIDs, "src uid", path, m1)
         IN AssertSortedChildren(sg, 0, path, m2)

AssertSorted(sg, path, mm) ==
    IF mm.status # "running" THEN mm
    ELSE IF sg = Nil THEN mm
    ELSE LET m1 == AssertUidListSorted(sg[1].SrcUIDs, "src uid", path, mm)
             m2 == AssertUidListSorted(sg[1].DestUIDs, "dest uid", path, m1)
         IN AssertSortedChildren(sg, 0, path, m2)

-----------------------------------------------------------------------------
(* DebugSubgraph *)

RECURSIVE DebugSubgraph(_, _, _)
RECURSIVE DebugSubgraphChildren(_, _, _, _)

\* for i := range sg.Children { ... }, from child i on
DebugSubgraphChildren(sg, indent, i, mm) ==
    IF mm.status # "running" THEN mm
    ELSE IF i >= Len(sg[1].Children) THEN mm
    ELSE LET m1 == Printf(indent \o "  Child=" \o ToString(i), mm)
         IN DebugSubgraphChildren(sg, indent, i + 1,
                DebugSubgraph(sg[1].Children[i + 1], indent \o "    ", m1))

\* faulty variant: the dump renders DestUIDs too
DebugSubgraphWithDest(sg, indent, mm) ==
    IF mm.status # "running" THEN mm
    ELSE IF sg = Nil THEN [mm EXCEPT !.status = "panic"]
    ELSE LET m1 == Printf(indent \o "Attr=" \o Quote(sg[1].Attr), mm)
             m2 == Printf(indent \o "  SrcUids=" \o FmtList(sg[1].SrcUIDs), m1)
             m3 == Printf(indent \o "  DestUids=" \o FmtList(sg[1].DestUIDs), m2)
         IN DebugSubgraphChildren(sg, indent, 0, m3)

\* sg.Attr is read with no nil check: a nil sg panics before anything is
\* written for it
DebugSubgraph(sg, indent, mm) ==
    IF mm.status # "running" THEN mm
    ELSE IF sg = Nil THEN [mm EXCEPT !.status = "panic"]
    ELSE LET m1 == Printf(indent \o "Attr=" \o Quote(sg[1].Attr), mm)
             m2 == Printf(indent \o "  SrcUids=" \o FmtList(sg[1].SrcUIDs), m1)
         IN DebugSubgraphChildren(sg, indent, 0, m2)

-----------------------------------------------------------------------------
(* Helpers of the properties *)

\* the pointer at path below sg
RECURSIVE At(_, _)
At(sg, path) ==
    IF path = <<>> THEN sg ELSE At(sg[1].Children[Head(path) + 1], Tail(path))

\* the paths of the nodes of sg
PathsOf(sg) == LET pp == PreorderPaths(sg, <<>>) IN {pp[j] : j \in 1 .. Len(pp)}

\* the uids of a list pointer
Elems(pl) == IF pl = Nil THEN <<>> ELSE pl[1].Uids

Increasing(u) == \A j \in 1 .. (Len(u) - 1) : u[j] < u[j + 1]

FieldOf(msg) == IF msg = "src uid" THEN "SrcUIDs" ELSE "DestUIDs"

TagOf(field) == IF field = "SrcUIDs" THEN "src uid" ELSE "dest uid"

\* the list pointer of the node at path that the tag msg names
ListOf(sg, path, msg) == At(sg, path)[1][FieldOf(msg)]

NodeSorted(n) == Increasing(Elems(n.SrcUIDs)) /\ Increasing(Elems(n.DestUIDs))

TreeSorted(sg) == \A p \in PathsOf(sg) : NodeSorted(At(sg, p)[1])

\* the tree sg with the list field of the node at path replaced by l
RECURSIVE ReplaceList(_, _, _, _)
ReplaceList(sg, path, field, l) ==
    IF path = <<>> THEN <<[sg[1] EXCEPT ![field] = l]>>
    ELSE <<[sg[1] EXCEPT !.Children[Head(path) + 1] =
                ReplaceList(@, Tail(path), field, l)]>>

\* the tree sg with every DestUIDs nil
RECURSIVE EraseDest(_)
EraseDest(sg) ==
    IF sg = Nil THEN Nil
    ELSE <<[sg[1] EXCEPT !.DestUIDs = Nil,
                         !.Children = [k \in 1 .. Len(sg[1].Children) |->
                                          EraseDest(sg[1].Children[k])]]>>

\* the list checks of a complete walk, in walk order: a node before its
\* children, SrcUIDs before DestUIDs, children in stored order
ExpectedChecks(sg) ==
    LET pp == PreorderPaths(sg, <<>>)
    IN [j \in 1 .. 2 * Len(pp) |->
          [path |-> pp[(j + 1) \div 2],
           msg  |-> IF j % 2 = 1 THEN "src uid" ELSE "dest uid"]]

ShortLists == {Nil} \cup {<<[Uids |-> u]>> : u \in {v \in UidSeqs : Len(v) <= 1}}

RECURSIVE Spaces(_)
Spaces(n) == IF n = 0 THEN "" ELSE " " \o Spaces(n - 1)

\* the dump the format of the trace prescribes for sg at depth d under the
\* base indent; an absent node contributes no line
RECURSIVE ExpectedLines(_, _, _)
RECURSIVE ExpectedChildLines(_, _, _, _)

ExpectedChildLines(sg, base, d, i) ==
    IF i >= Len(sg[1].Children) THEN <<>>
    ELSE <<base \o Spaces(4 * d) \o "  Child=" \o ToString(i)>>
         \o ExpectedLines(sg[1].Children[i + 1], base, d + 1)
         \o ExpectedChildLines(sg, base, d, i + 1)

ExpectedLines(sg, base, d) ==
    IF sg = Nil THEN <<>>
    ELSE <<base \o Spaces(4 * d) \o "Attr=" \o Quote(sg[1].Attr),
           base \o Spaces(4 * d) \o "  SrcUids=" \o FmtList(sg[1].SrcUIDs)>>
         \o ExpectedChildLines(sg, base, d, 0)

\* no nil entry in any Children list, and the root is not nil
RECURSIVE NilFree(_)
NilFree(sg) ==
    /\ sg # Nil
    /\ \A k \in 1 .. Len(sg[1].Children) : NilFree(sg[1].Children[k])

-----------------------------------------------------------------------------
(* The calls.  call, indent0 and m hold the latest call: its name, its indent *)
(* argument and its effects.  A process that has stopped makes no call.      *)

Init ==
    /\ \E sh \in Shapes :
          \E fs \in {x \in SUBSET ListFields(sh) : Cardinality(x) <= MaxLists} :
             \E asg \in [fs -> Lists] : tree = WithLists(sh, <<>>, asg)
    /\ call = "none"
    /\ indent0 = ""
    /\ m = NewMachine

\* faulty variant: the validator drops the list it found unsorted
CallAssertSortedRepairing ==
    /\ m.status = "running"
    /\ call' = "AssertSorted"
    /\ indent0' = ""
    /\ m' = AssertSorted(tree, <<>>, NewMachine)
    /\ tree' = IF m'.status = "fatal"
               THEN ReplaceList(tree, m'.failedAt[1].path,
                                FieldOf(m'.failedAt[1].msg), Nil)
               ELSE tree

CallAssertSorted ==
    /\ m.status = "running"
    /\ call' = "AssertSorted"
    /\ indent0' = ""
    /\ m' = AssertSorted(tree, <<>>, NewMachine)
    /\ UNCHANGED tree

CallDebugSubgraph ==
    /\ m.status = "running"
    /\ \E indent \in BaseIndents :
          /\ call' = "DebugSubgraph"
          /\ indent0' = indent
          /\ m' = DebugSubgraph(tree, indent, NewMachine)
    /\ UNCHANGED tree

Next == CallAssertSorted \/ CallDebugSubgraph

Spec == Init /\ [][Next]_vars

-----------------------------------------------------------------------------
(* Properties *)

AssertSortedCalled == call = "AssertSorted"

DebugSubgraphCalled == call = "DebugSubgraph"

\* the number of lists of the tree that are not strictly increasing
UnsortedLists(sg) ==
    Cardinality({f \in ListFields(sg) :
                    ~Increasing(Elems(At(sg, f.path)[1][f.field]))})

\* C1: on a tree all of whose SrcUIDs and DestUIDs are strictly increasing,
\* AssertSorted applied to the root completes with no failure, and so does
\* AssertSorted applied to any node of the tree.
C1_SortedTreePasses ==
    /\ (AssertSortedCalled /\ TreeSorted(tree))
          => (m.status = "running" /\ m.log = <<>>)
    /\ AssertSortedCalled =>
          \A p \in PathsOf(tree) :
             TreeSorted(At(tree, p))
                => AssertSorted(At(tree, p), p, NewMachine).status = "running"

\* a walk that passed a sorted tree of three nodes holding a list of two uids
C1_Witness ==
    /\ AssertSortedCalled
    /\ TreeSorted(tree)
    /\ Cardinality(PathsOf(tree)) = 3
    /\ \E f \in ListFields(tree) : Len(Elems(At(tree, f.path)[1][f.field])) >= 2
    /\ m.status = "running"

\* C2: if any node of the tree, at any depth and child position, has a
\* SrcUIDs or DestUIDs with an adjacent pair a >= b, AssertSorted applied to
\* the root ends in an assertion failure.
C2_UnsortedTreeFails ==
    (AssertSortedCalled /\ ~TreeSorted(tree)) => m.status = "fatal"

\* the only unsorted list is the DestUIDs of the last leaf, after a first
\* sibling whose list is sorted, and the walk failed
C2_Witness ==
    /\ AssertSortedCalled
    /\ PathsOf(tree) = {<<>>, <<0>>, <<1>>}
    /\ NodeSorted(At(tree, <<>>)[1])
    /\ NodeSorted(At(tree, <<0>>)[1])
    /\ Len(Elems(At(tree, <<0>>)[1].SrcUIDs)) >= 2
    /\ Increasing(Elems(At(tree, <<1>>)[1].SrcUIDs))
    /\ ~Increasing(Elems(At(tree, <<1>>)[1].DestUIDs))
    /\ m.status = "fatal"

\* the strings formatted into a logged message: the arguments of its %s verbs
MessageStrings(r) == {r.args[1]}

\* C3 (as claimed): the failure reported names the list by its tag, the label
\* of the node that owns the list, and the full contents of the list.
C3_ReportNamesTagLabelAndList ==
    (AssertSortedCalled /\ m.status = "fatal") =>
        LET f == m.failedAt[1]
            r == m.log[1]
        IN /\ r.args[1] = f.msg
           /\ r.args[2] = Elems(ListOf(tree, f.path, f.msg))
           /\ At(tree, f.path)[1].Attr \in MessageStrings(r)

\* C3 (amended): the failure reported is a message whose arguments are the
\* tag of the unsorted list ("src uid" for SrcUIDs, "dest uid" for DestUIDs)
\* and the full contents of that list, and nothing else: it does not name the
\* node.
C3_ReportNamesTagAndList ==
    (AssertSortedCalled /\ m.status = "fatal") =>
        LET f == m.failedAt[1]
            r == m.log[1]
        IN /\ r.format = "%s list not sorted: %v"
           /\ Len(r.args) = 2
           /\ r.args[1] \in {"src uid", "dest uid"}
           /\ r.args[2] = Elems(ListOf(tree, f.path, r.args[1]))
           /\ ~Increasing(r.args[2])
           /\ \A p \in PathsOf(tree) : At(tree, p)[1].Attr \notin MessageStrings(r)

\* a failure on the DestUIDs of a node below the root, whose SrcUIDs differs
C3_Witness ==
    /\ AssertSortedCalled
    /\ m.status = "fatal"
    /\ m.failedAt[1].path # <<>>
    /\ m.log[1].args[1] = "dest uid"
    /\ At(tree, m.failedAt[1].path)[1].SrcUIDs # Nil

\* C4: a list of length 0 or 1, a nil list included, never makes
\* AssertUidListSorted fail; whether AssertSorted fails does not depend on such
\* lists: replacing any list by one of length 0 or 1 never makes a passing
\* tree fail, and exchanging one such list for another changes nothing.
C4_ShortListsNeverFail ==
    AssertSortedCalled =>
        /\ m.status # "running" =>
              (m.status = "fatal" /\ Len(m.log[1].args[2]) >= 2)
        /\ \A f \in ListFields(tree) :
              LET pl == At(tree, f.path)[1][f.field]
              IN /\ Len(Elems(pl)) <= 1 =>
                       AssertUidListSorted(pl, TagOf(f.field), f.path, NewMachine).status
                          = "running"
                 /\ \A l \in ShortLists :
                       LET st == AssertSorted(ReplaceList(tree, f.path, f.field, l),
                                              <<>>, NewMachine).status
                       IN /\ m.status = "running" => st = "running"
                          /\ Len(Elems(pl)) <= 1 => st = m.status

\* a walk that passed a tree holding a nil list, an empty list and a list of
\* one uid
C4_Witness ==
    /\ AssertSortedCalled
    /\ m.status = "running"
    /\ \E f, g, h \in ListFields(tree) :
          /\ At(tree, f.path)[1][f.field] = Nil
          /\ At(tree, g.path)[1][g.field] = <<[Uids |-> <<>>]>>
          /\ At(tree, h.path)[1][h.field] = <<[Uids |-> <<1>>]>>

\* the entries k of the Children of the node at p that are nil and are
\* followed by a sibling that holds an unsorted list
NilBeforeUnsorted(sg) ==
    {p \in PathsOf(sg) :
        \E k, j \in 1 .. Len(At(sg, p)[1].Children) :
           /\ k < j
           /\ At(sg, p)[1].Children[k] = Nil
           /\ At(sg, p)[1].Children[j] # Nil
           /\ ~TreeSorted(At(sg, p)[1].Children[j])}

\* C5: AssertSorted of a nil tree succeeds with no list checked; a nil entry
\* of a Children list is skipped with no failure, and the other children are
\* still validated: a walk that succeeds has checked both lists of every node,
\* and an unsorted sibling after a nil entry still fails the walk.
C5_NilIsSkipped ==
    AssertSortedCalled =>
        /\ m.status # "panic"
        /\ tree = Nil => (m.status = "running" /\ m.checked = <<>> /\ m.log = <<>>)
        /\ m.status = "running" => m.checked = ExpectedChecks(tree)
        /\ NilBeforeUnsorted(tree) # {} => m.status = "fatal"

\* a walk that succeeded on a root whose Children are a nil entry and then a
\* node holding a list, which it checked
C5_Witness ==
    /\ AssertSortedCalled
    /\ tree # Nil
    /\ Len(tree[1].Children) = 2
    /\ tree[1].Children[1] = Nil
    /\ tree[1].Children[2] # Nil
    /\ tree[1].Children[2][1].SrcUIDs # Nil
    /\ m.status = "running"
    /\ Len(m.checked) = 4

\* C6: DebugSubgraph of a nil node, given as the root or met as a nil entry of
\* a Children list, is a no-op: it writes no line for that node and it does
\* not fail.
C6_DebugSubgraphNilIsNoOp ==
    DebugSubgraphCalled =>
        /\ m.status = "running"
        /\ tree = Nil => m.out = <<>>

\* C7: for every tree and base indent, DebugSubgraph writes the lines of the
\* depth-first pre-order dump: a node at depth d gives its Attr line and its
\* SrcUids line under the base indent plus 4 * d spaces, then for each child i
\* in stored order one line Child=i followed by the whole dump of that child
\* at depth d + 1.
C7_DumpIsPreorder ==
    DebugSubgraphCalled => m.out = ExpectedLines(tree, indent0, 0)

\* what holds of C7: on a tree with no nil node the dump is complete and is
\* the pre-order dump
DebugSubgraphOfNilFreeTree ==
    (DebugSubgraphCalled /\ NilFree(tree)) =>
        (m.status = "running" /\ m.out = ExpectedLines(tree, indent0, 0))

\* C8: the dump is a function of the labels, the SrcUIDs lists and the child
\* order alone: the effects of DebugSubgraph on the tree are those of
\* DebugSubgraph on the same tree with every DestUIDs nil, so that two trees
\* that differ only in DestUIDs are dumped alike.
C8_DumpIgnoresDest ==
    DebugSubgraphCalled => m = DebugSubgraph(EraseDest(tree), indent0, NewMachine)

\* a complete dump of a tree of three nodes that holds a DestUIDs list
C8_Witness ==
    /\ DebugSubgraphCalled
    /\ m.status = "running"
    /\ Cardinality(PathsOf(tree)) = 3
    /\ \E p \in PathsOf(tree) : Len(Elems(At(tree, p)[1].DestUIDs)) >= 2

\* C9: no call of AssertSorted or DebugSubgraph changes the tree, whether the
\* call succeeds or fails.
C9_TreeUnchanged == [][tree' = tree]_vars

\* a failed validation and a failed dump
C9_Witness ==
    \/ AssertSortedCalled /\ m.status = "fatal" /\ Cardinality(PathsOf(tree)) = 3
    \/ DebugSubgraphCalled /\ m.status = "panic" /\ tree # Nil

\* the place in ExpectedChecks(sg) of the first list that is not increasing
\* (0 when there is none)
FirstUnsorted(sg) ==
    LET e   == ExpectedChecks(sg)
        bad == {j \in 1 .. Len(e) : ~Increasing(Elems(ListOf(sg, e[j].path, e[j].msg)))}
    IN IF bad = {} THEN 0 ELSE CHOOSE j \in bad : \A k \in bad : j <= k

\* the lowest index i (from 0) with u[i] >= u[i+1]
FirstBadIndex(u) ==
    CHOOSE i \in 0 .. (Len(u) - 2) :
        /\ u[i + 1] >= u[i + 2]
        /\ \A k \in 0 .. (i - 1) : u[k + 1] < u[k + 2]

\* C10: a failing walk reports the violation that comes first in walk order (a
\* node before its children, SrcUIDs before DestUIDs, children in stored
\* order, the lowest violating index of the list) and then halts: it has
\* checked the lists up to that one and no other, and logged one message.
C10_FirstViolationHalts ==
    (AssertSortedCalled /\ m.status = "fatal") =>
        LET e == ExpectedChecks(tree)
            j == FirstUnsorted(tree)
        IN /\ j > 0
           /\ m.checked = SubSeq(e, 1, j)
           /\ Len(m.log) = 1
           /\ m.log[1].args = <<e[j].msg, Elems(ListOf(tree, e[j].path, e[j].msg))>>
           /\ m.failedAt =
                 <<[path |-> e[j].path, msg |-> e[j].msg,
                    i |-> FirstBadIndex(Elems(ListOf(tree, e[j].path, e[j].msg)))]>>

\* a failing walk of a tree with two unsorted lists, the first of them with
\* two violating pairs, that left lists unchecked
C10_Witness ==
    /\ AssertSortedCalled
    /\ m.status = "fatal"
    /\ UnsortedLists(tree) >= 2
    /\ m.log[1].args[2] = <<2, 1, 1>>
    /\ Len(m.checked) < Len(ExpectedChecks(tree))

====
